---- MODULE Spec2Model ----
(***************************************************************************)
(* A model of the serial port of go-serial (Windows build): the            *)
(* translation of Timeouts and of the legacy OpenOptions into the driver's *)
(* COMMTIMEOUTS, and the Port operations SetTimeouts, Read, Write,         *)
(* ReadWithTimeouts, WriteWithTimeouts, PurgeBuffers and Close over one    *)
(* OS handle whose driver holds one timeout configuration.                 *)
(***************************************************************************)
EXTENDS Integers, Sequences, FiniteSets, TLC

(***************************************************************************)
(* Widths and units.  A DWORD has 32 bits in the source; the model keeps   *)
(* the modular arithmetic and scales the width down to WordBits, since the *)
(* model checker's integers are themselves 32 bits wide.  A time.Duration  *)
(* counts nanoseconds, 10^6 to the millisecond; the model counts duration  *)
(* units, Millisecond of them to the millisecond, so that durations below  *)
(* one millisecond exist.                                                  *)
(***************************************************************************)
WordBits == 8

Millisecond == 2

\* Time a pending raw I/O is followed for, in milliseconds.
MaxTime == 3

\* Longest caller buffer, in bytes.
MaxBufLen == 2

\* setupComm(h, 64, 64): the driver's receive and transmit queues, scaled.
InBufSize == 2

OutBufSize == 1

MAXDWORD == 2^WordBits - 1

\* uint32(x) of an integer x >= 0: the low bits of x.
Uint32(x) == x % (MAXDWORD + 1)

Min(a, b) == IF a < b THEN a ELSE b

(***************************************************************************)
(* Values.                                                                 *)
(***************************************************************************)
WindowsCommTimeouts(ri, rm, rc, wm, wc) ==
    [ReadIntervalTimeout |-> ri,
     ReadTotalTimeoutMultiplier |-> rm,
     ReadTotalTimeoutConstant |-> rc,
     WriteTotalTimeoutMultiplier |-> wm,
     WriteTotalTimeoutConstant |-> wc]

\* var timeouts WindowsCommTimeouts: the zero value.
ZeroCommTimeouts == WindowsCommTimeouts(0, 0, 0, 0, 0)

defaultWindowsCommTimeouts == WindowsCommTimeouts(1, 0, 100, 0, 100)

Timeouts(ric, rt, wt) ==
    [ReadIntercharacter |-> ric, ReadTotal |-> rt, WriteTotal |-> wt]

DefaultTimeouts == Timeouts(Millisecond, Millisecond * 100, Millisecond * 100)

OpenOptions(ict, mrs) ==
    [InterCharacterTimeout |-> ict, MinimumReadSize |-> mrs]

(***************************************************************************)
(* round: math.Floor(f + 0.5) of the quotient num / den of two naturals.   *)
(* floor(num/den + 1/2) = floor((2 num + den) / (2 den)).                  *)
(***************************************************************************)
roundTruncating(num, den) == num \div den

round(num, den) == (2 * num + den) \div (2 * den)

(***************************************************************************)
(* ctoFromOpenOptions: the legacy derivation, used by openInternal.        *)
(***************************************************************************)
ctoFromOpenOptionsByInput(options) ==
    IF options.InterCharacterTimeout > 0 /\ options.MinimumReadSize = 0
    THEN [ZeroCommTimeouts EXCEPT
            !.ReadIntervalTimeout = MAXDWORD,
            !.ReadTotalTimeoutMultiplier = MAXDWORD,
            !.ReadTotalTimeoutConstant =
                Uint32(round(options.InterCharacterTimeout, 100))]
    ELSE IF options.MinimumReadSize > 0
    THEN [ZeroCommTimeouts EXCEPT
            !.ReadIntervalTimeout = Uint32(options.MinimumReadSize),
            !.ReadTotalTimeoutMultiplier = 1,
            !.ReadTotalTimeoutConstant = 1]
    ELSE [ZeroCommTimeouts EXCEPT
            !.ReadIntervalTimeout = MAXDWORD,
            !.ReadTotalTimeoutMultiplier = MAXDWORD,
            !.ReadTotalTimeoutConstant = MAXDWORD - 1]

ctoFromOpenOptionsTimeoutFirst(options) ==
    LET timeoutConstant == Uint32(round(options.InterCharacterTimeout, 100))
        readIntervalTimeout == Uint32(options.MinimumReadSize)
    IN  IF timeoutConstant > 0
        THEN [ZeroCommTimeouts EXCEPT
                !.ReadIntervalTimeout = MAXDWORD,
                !.ReadTotalTimeoutMultiplier = MAXDWORD,
                !.ReadTotalTimeoutConstant = timeoutConstant]
        ELSE IF readIntervalTimeout > 0
        THEN [ZeroCommTimeouts EXCEPT
                !.ReadIntervalTimeout = readIntervalTimeout,
                !.ReadTotalTimeoutMultiplier = 1,
                !.ReadTotalTimeoutConstant = 1]
        ELSE [ZeroCommTimeouts EXCEPT
                !.ReadIntervalTimeout = MAXDWORD,
                !.ReadTotalTimeoutMultiplier = MAXDWORD,
                !.ReadTotalTimeoutConstant = MAXDWORD - 1]

ctoFromOpenOptions(options) ==
    LET timeoutConstant == Uint32(round(options.InterCharacterTimeout, 100))
        readIntervalTimeout == Uint32(options.MinimumReadSize)
    IN  IF timeoutConstant > 0 /\ readIntervalTimeout = 0
        THEN \* Assume we're setting for non blocking IO.
             [ZeroCommTimeouts EXCEPT
                !.ReadIntervalTimeout = MAXDWORD,
                !.ReadTotalTimeoutMultiplier = MAXDWORD,
                !.ReadTotalTimeoutConstant = timeoutConstant]
        ELSE IF readIntervalTimeout > 0
        THEN \* Assume we want to block and wait for input.
             [ZeroCommTimeouts EXCEPT
                !.ReadIntervalTimeout = readIntervalTimeout,
                !.ReadTotalTimeoutMultiplier = 1,
                !.ReadTotalTimeoutConstant = 1]
        ELSE \* No idea what we intended, use defaults.
             [ZeroCommTimeouts EXCEPT
                !.ReadIntervalTimeout = MAXDWORD,
                !.ReadTotalTimeoutMultiplier = MAXDWORD,
                !.ReadTotalTimeoutConstant = MAXDWORD - 1]

(***************************************************************************)
(* ctoFromTimeouts: what SetTimeouts builds from a Timeouts value, the     *)
(* default baseline with three fields overwritten.  d / time.Millisecond   *)
(* is the integer quotient, uint32() keeps its low bits.                   *)
(***************************************************************************)
ctoFromTimeouts(timeouts) ==
    [defaultWindowsCommTimeouts EXCEPT
        !.ReadIntervalTimeout =
            Uint32(timeouts.ReadIntercharacter \div Millisecond),
        !.ReadTotalTimeoutConstant =
            Uint32(timeouts.ReadTotal \div Millisecond),
        !.WriteTotalTimeoutConstant =
            Uint32(timeouts.WriteTotal \div Millisecond)]

(***************************************************************************)
(* State.                                                                  *)
(*   port     the serialPort object the caller holds: a nil pointer, or an *)
(*            object with its fd field                                     *)
(*   opts     the OpenOptions Open was called with                         *)
(*   os       the operating system's side of the handle "h": whether it is *)
(*            live, the driver's one timeout configuration, the number of  *)
(*            bytes in the receive and transmit queues                     *)
(*   th       per calling thread: the call in progress or, when pc is      *)
(*            "idle", the last call completed and what it returned         *)
(***************************************************************************)
VARIABLES port, opts, os, th

vars == <<port, opts, os, th>>

Threads == {"t1", "t2"}

NilPort == [nil |-> TRUE, fd |-> "Handle(0)"]

serialPort(fd) == [nil |-> FALSE, fd |-> fd]

\* p == nil || p.fd == syscall.Handle(0) || p.fd == syscall.InvalidHandle
InvalidOrNil(p) == p.nil \/ p.fd = "Handle(0)" \/ p.fd = "InvalidHandle"

\* The handle names a live object of the operating system.
HandleLive(h) == h = "h" /\ os.state = "open"

\* One call of the handle provider, as made by a Port operation.
ProviderCall(fn, cto, err) == [fn |-> fn, cto |-> cto, err |-> err]

NoCall == [op |-> "none", timeouts |-> Timeouts(0, 0, 0), len |-> 0,
           clearRx |-> FALSE, clearTx |-> FALSE, onOpenPort |-> FALSE]

IdleThread ==
    [pc |-> "idle", call |-> NoCall, calls |-> <<>>, n |-> 0, err |-> "nil",
     t |-> 0, idle |-> 0, cfg |-> ZeroCommTimeouts]

\* A call begins: what the thread holds when the method is entered, with a
\* note of whether the port was open then.
Enter(op, timeouts, len, clearRx, clearTx) ==
    [IdleThread EXCEPT
        !.call = [op |-> op, timeouts |-> timeouts, len |-> len,
                  clearRx |-> clearRx, clearTx |-> clearTx,
                  onOpenPort |-> ~port.nil /\ HandleLive(port.fd)]]

\* The method returns (n, err).
Return(r, n, err) == [r EXCEPT !.pc = "idle", !.n = n, !.err = err]

Made(r, fn, cto, err) ==
    [r EXCEPT !.calls = Append(r.calls, ProviderCall(fn, cto, err))]

Init ==
    /\ port \in {NilPort, serialPort("Handle(0)"), serialPort("InvalidHandle")}
    /\ opts = OpenOptions(0, 0)
    /\ os = [state |-> "unopened", cto |-> ZeroCommTimeouts, rx |-> 0, tx |-> 0]
    /\ th = [t \in Threads |-> IdleThread]

(***************************************************************************)
(* openInternal.  CreateFile, SetCommState, SetupComm or SetCommTimeouts   *)
(* may fail (ok = FALSE): the handle is closed again and no port is        *)
(* returned.  Otherwise the driver holds ctoFromOpenOptions(options).      *)
(***************************************************************************)
Open(options, ok) ==
    /\ port = NilPort
    /\ os.state = "unopened"
    /\ \A t \in Threads : th[t].pc = "idle"
    /\ opts' = options
    /\ IF ok
       THEN /\ port' = serialPort("h")
            /\ os' = [os EXCEPT !.state = "open",
                                !.cto = ctoFromOpenOptions(options)]
       ELSE /\ port' = NilPort
            /\ os' = [os EXCEPT !.state = "failed"]
    /\ UNCHANGED th

(***************************************************************************)
(* setCommTimeouts: SetCommTimeouts(h, &cto).  It installs cto when the    *)
(* handle is live and the driver accepts it (ok), and reports an error     *)
(* otherwise.                                                              *)
(***************************************************************************)
\* A setCommTimeouts that reports success without installing anything.
setCommTimeoutsNotInstalled(h, cto, ok) ==
    IF HandleLive(h) /\ ok
    THEN [os |-> os, err |-> "nil"]
    ELSE [os |-> os, err |-> "SystemError"]

setCommTimeouts(h, cto, ok) ==
    IF HandleLive(h) /\ ok
    THEN [os |-> [os EXCEPT !.cto = cto], err |-> "nil"]
    ELSE [os |-> os, err |-> "SystemError"]

\* The body of SetTimeouts, run by thread record r.
SetTimeoutsBody(r, timeouts, ok) ==
    IF InvalidOrNil(port)
    THEN [r |-> r, os |-> os, err |-> "ErrInvalidOrNilPort"]
    ELSE LET cto == ctoFromTimeouts(timeouts)
             s == setCommTimeouts(port.fd, cto, ok)
         IN  [r |-> Made(r, "applyTimeouts", cto, s.err), os |-> s.os,
              err |-> s.err]

SetTimeouts(t, timeouts, ok) ==
    /\ th[t].pc = "idle"
    /\ LET b == SetTimeoutsBody(Enter("SetTimeouts", timeouts, 0, FALSE, FALSE),
                                timeouts, ok)
       IN  /\ th' = [th EXCEPT ![t] = Return(b.r, 0, b.err)]
           /\ os' = b.os
    /\ UNCHANGED <<port, opts>>

(***************************************************************************)
(* Close: the local check, then CloseHandle(p.fd).  The fd field is left   *)
(* as it was.                                                              *)
(***************************************************************************)
Close(t) ==
    /\ th[t].pc = "idle"
    /\ LET r == Enter("Close", Timeouts(0, 0, 0), 0, FALSE, FALSE)
       IN  IF InvalidOrNil(port)
           THEN /\ th' = [th EXCEPT ![t] = Return(r, 0, "ErrInvalidOrNilPort")]
                /\ os' = os
           ELSE IF HandleLive(port.fd)
           THEN /\ th' = [th EXCEPT ![t] =
                            Return(Made(r, "close", ZeroCommTimeouts, "nil"),
                                   0, "nil")]
                /\ os' = [os EXCEPT !.state = "closed", !.rx = 0, !.tx = 0]
           ELSE /\ th' = [th EXCEPT ![t] =
                            Return(Made(r, "close", ZeroCommTimeouts,
                                        "SystemError"), 0, "SystemError")]
                /\ os' = os
    /\ UNCHANGED <<port, opts>>

(***************************************************************************)
(* The driver's timing of a raw read, as the COMMTIMEOUTS fields document  *)
(* it.  ReadIntervalTimeout = ReadTotalTimeoutMultiplier = MAXDWORD with   *)
(* 0 < ReadTotalTimeoutConstant < MAXDWORD: bytes in the input buffer are  *)
(* returned at once, otherwise the read returns as soon as a byte arrives, *)
(* or times out after ReadTotalTimeoutConstant.  Otherwise the total       *)
(* timeout is MULTIPLIER * number_of_bytes + CONSTANT, none when that is   *)
(* zero, and the interval timeout works once there was an incoming byte    *)
(* and the flow stopped.                                                   *)
(***************************************************************************)
ReturnsOnAnyByte(cto) ==
    /\ cto.ReadIntervalTimeout = MAXDWORD
    /\ cto.ReadTotalTimeoutMultiplier = MAXDWORD
    /\ cto.ReadTotalTimeoutConstant > 0
    /\ cto.ReadTotalTimeoutConstant < MAXDWORD

ReadTotalTimeout(cto, len) ==
    IF ReturnsOnAnyByte(cto)
    THEN cto.ReadTotalTimeoutConstant
    ELSE cto.ReadTotalTimeoutMultiplier * len + cto.ReadTotalTimeoutConstant

WriteTotalTimeout(cto, len) ==
    cto.WriteTotalTimeoutMultiplier * len + cto.WriteTotalTimeoutConstant

\* The pending raw read of thread record r has all it asked for.
ReadFull(r) == r.n = r.call.len

ReadIntervalElapsed(r) ==
    IF ReturnsOnAnyByte(r.cfg)
    THEN r.n > 0
    ELSE /\ r.cfg.ReadIntervalTimeout > 0
         /\ r.n > 0
         /\ r.idle >= r.cfg.ReadIntervalTimeout

ReadTotalElapsed(r) ==
    /\ ReadTotalTimeout(r.cfg, r.call.len) > 0
    /\ r.t >= ReadTotalTimeout(r.cfg, r.call.len)

ReadDue(r) == ReadFull(r) \/ ReadIntervalElapsed(r) \/ ReadTotalElapsed(r)

WriteFull(r) == r.n = r.call.len

WriteTotalElapsed(r) ==
    /\ WriteTotalTimeout(r.cfg, r.call.len) > 0
    /\ r.t >= WriteTotalTimeout(r.cfg, r.call.len)

WriteDue(r) == WriteFull(r) \/ WriteTotalElapsed(r)

(***************************************************************************)
(* Read: the local check, then ReadFile(p.fd, buf, &done, nil).  The raw   *)
(* read takes what the receive queue holds, up to len(buf), and returns at *)
(* once when that ends it or the handle is not live; otherwise it stays    *)
(* pending in the driver under the configuration in force.                 *)
(***************************************************************************)
ReadBody(r) ==
    IF InvalidOrNil(port)
    THEN [r |-> Return(r, 0, "ErrInvalidOrNilPort"), os |-> os]
    ELSE IF ~HandleLive(port.fd)
    THEN [r |-> Return(Made(r, "rawRead", os.cto, "SystemError"),
                       0, "SystemError"),
          os |-> os]
    ELSE LET n0 == Min(r.call.len, os.rx)
             q == [Made(r, "rawRead", os.cto, "nil") EXCEPT
                      !.pc = "reading", !.n = n0, !.cfg = os.cto]
         IN  [r |-> IF ReadDue(q) THEN Return(q, n0, "nil") ELSE q,
              os |-> [os EXCEPT !.rx = os.rx - n0]]

\* Write: the local check, then WriteFile(p.fd, buf, &n, nil).
WriteBody(r) ==
    IF InvalidOrNil(port)
    THEN [r |-> Return(r, 0, "ErrInvalidOrNilPort"), os |-> os]
    ELSE IF ~HandleLive(port.fd)
    THEN [r |-> Return(Made(r, "rawWrite", os.cto, "SystemError"),
                       0, "SystemError"),
          os |-> os]
    ELSE LET n0 == Min(r.call.len, OutBufSize - os.tx)
             q == [Made(r, "rawWrite", os.cto, "nil") EXCEPT
                      !.pc = "writing", !.n = n0, !.cfg = os.cto]
         IN  [r |-> IF WriteDue(q) THEN Return(q, n0, "nil") ELSE q,
              os |-> [os EXCEPT !.tx = os.tx + n0]]

Read(t, len) ==
    /\ th[t].pc = "idle"
    /\ LET b == ReadBody(Enter("Read", Timeouts(0, 0, 0), len, FALSE, FALSE))
       IN  th' = [th EXCEPT ![t] = b.r] /\ os' = b.os
    /\ UNCHANGED <<port, opts>>

Write(t, len) ==
    /\ th[t].pc = "idle"
    /\ LET b == WriteBody(Enter("Write", Timeouts(0, 0, 0), len, FALSE, FALSE))
       IN  th' = [th EXCEPT ![t] = b.r] /\ os' = b.os
    /\ UNCHANGED <<port, opts>>

(***************************************************************************)
(* ReadWithTimeouts, WriteWithTimeouts: p.SetTimeouts(timeouts), whose     *)
(* result is dropped, then p.Read(buf) or p.Write(buf).  The two calls are *)
(* two steps of the calling thread.                                        *)
(***************************************************************************)
ReadWithTimeouts(t, len, timeouts, ok) ==
    /\ th[t].pc = "idle"
    /\ LET b == SetTimeoutsBody(
                    Enter("ReadWithTimeouts", timeouts, len, FALSE, FALSE),
                    timeouts, ok)
       IN  /\ th' = [th EXCEPT ![t] = [b.r EXCEPT !.pc = "io"]]
           /\ os' = b.os
    /\ UNCHANGED <<port, opts>>

WriteWithTimeouts(t, len, timeouts, ok) ==
    /\ th[t].pc = "idle"
    /\ LET b == SetTimeoutsBody(
                    Enter("WriteWithTimeouts", timeouts, len, FALSE, FALSE),
                    timeouts, ok)
       IN  /\ th' = [th EXCEPT ![t] = [b.r EXCEPT !.pc = "io"]]
           /\ os' = b.os
    /\ UNCHANGED <<port, opts>>

\* The second statement of ReadWithTimeouts or WriteWithTimeouts.
WithTimeoutsIO(t) ==
    /\ th[t].pc = "io"
    /\ LET b == IF th[t].call.op = "ReadWithTimeouts"
                THEN ReadBody(th[t]) ELSE WriteBody(th[t])
       IN  th' = [th EXCEPT ![t] = b.r] /\ os' = b.os
    /\ UNCHANGED <<port, opts>>

(***************************************************************************)
(* PurgeBuffers: purgeComm(p.fd, clearRx, clearTx), with no local check:   *)
(* p.fd of a nil p is a nil pointer dereference, and any fd goes to        *)
(* PurgeComm.                                                              *)
(***************************************************************************)
\* A purgeComm whose two flags are exchanged.
purgeCommSwapped(h, clearRx, clearTx, ok) ==
    IF HandleLive(h) /\ ok
    THEN [os |-> [os EXCEPT !.rx = IF clearTx THEN 0 ELSE os.rx,
                            !.tx = IF clearRx THEN 0 ELSE os.tx],
          err |-> "nil"]
    ELSE [os |-> os, err |-> "SystemError"]

purgeComm(h, clearRx, clearTx, ok) ==
    IF HandleLive(h) /\ ok
    THEN [os |-> [os EXCEPT !.rx = IF clearRx THEN 0 ELSE os.rx,
                            !.tx = IF clearTx THEN 0 ELSE os.tx],
          err |-> "nil"]
    ELSE [os |-> os, err |-> "SystemError"]

PurgeBuffers(t, clearRx, clearTx, ok) ==
    /\ th[t].pc = "idle"
    /\ LET r == Enter("PurgeBuffers", Timeouts(0, 0, 0), 0, clearRx, clearTx)
       IN  IF port.nil
           THEN th' = [th EXCEPT ![t] = Return(r, 0, "panic")] /\ os' = os
           ELSE LET s == purgeComm(port.fd, clearRx, clearTx, ok)
                IN  /\ th' = [th EXCEPT ![t] =
                                Return(Made(r, "applyPurge", ZeroCommTimeouts,
                                            s.err), 0, s.err)]
                    /\ os' = s.os
    /\ UNCHANGED <<port, opts>>

(***************************************************************************)
(* The driver and the line.  A pending raw read or write returns when it   *)
(* is due, or with an error once the handle is closed; a byte from the     *)
(* peer goes to a pending read, else into the receive queue; a byte sent   *)
(* leaves the transmit queue, a pending write filling the place; time      *)
(* passes while pending raw I/O is not due.                                *)
(***************************************************************************)
\* A ReadComplete that leaves a read pending on a closed handle pending.
ReadCompleteOnlyLive(t) ==
    /\ th[t].pc = "reading"
    /\ HandleLive(port.fd)
    /\ ReadDue(th[t])
    /\ th' = [th EXCEPT ![t] = Return(th[t], th[t].n, "nil")]
    /\ UNCHANGED <<port, opts, os>>

ReadComplete(t) ==
    /\ th[t].pc = "reading"
    /\ IF HandleLive(port.fd)
       THEN /\ ReadDue(th[t])
            /\ th' = [th EXCEPT ![t] = Return(th[t], th[t].n, "nil")]
       ELSE th' = [th EXCEPT ![t] = Return(th[t], th[t].n, "SystemError")]
    /\ UNCHANGED <<port, opts, os>>

\* A WriteComplete that reports the elapsed write-total timeout as an error.
WriteCompleteTimeoutError(t) ==
    /\ th[t].pc = "writing"
    /\ IF HandleLive(port.fd)
       THEN /\ WriteDue(th[t])
            /\ th' = [th EXCEPT ![t] =
                         Return(th[t], th[t].n,
                                IF WriteFull(th[t]) THEN "nil"
                                ELSE "SystemError")]
       ELSE th' = [th EXCEPT ![t] = Return(th[t], th[t].n, "SystemError")]
    /\ UNCHANGED <<port, opts, os>>

WriteComplete(t) ==
    /\ th[t].pc = "writing"
    /\ IF HandleLive(port.fd)
       THEN /\ WriteDue(th[t])
            /\ th' = [th EXCEPT ![t] = Return(th[t], th[t].n, "nil")]
       ELSE th' = [th EXCEPT ![t] = Return(th[t], th[t].n, "SystemError")]
    /\ UNCHANGED <<port, opts, os>>

ByteToReader(t) ==
    /\ os.state = "open"
    /\ th[t].pc = "reading"
    /\ ~ReadDue(th[t])
    /\ th' = [th EXCEPT ![t].n = @ + 1, ![t].idle = 0]
    /\ UNCHANGED <<port, opts, os>>

ByteToQueue ==
    /\ os.state = "open"
    /\ \A t \in Threads : th[t].pc = "reading" => ReadDue(th[t])
    /\ os.rx < InBufSize
    /\ os' = [os EXCEPT !.rx = @ + 1]
    /\ UNCHANGED <<port, opts, th>>

ByteSentFromWriter(t) ==
    /\ os.state = "open"
    /\ os.tx > 0
    /\ th[t].pc = "writing"
    /\ ~WriteDue(th[t])
    /\ th' = [th EXCEPT ![t].n = @ + 1]
    /\ UNCHANGED <<port, opts, os>>

ByteSent ==
    /\ os.state = "open"
    /\ os.tx > 0
    /\ \A t \in Threads : th[t].pc = "writing" => WriteDue(th[t])
    /\ os' = [os EXCEPT !.tx = @ - 1]
    /\ UNCHANGED <<port, opts, th>>

Pending(r) == r.pc \in {"reading", "writing"}

Due(r) == IF r.pc = "reading" THEN ReadDue(r) ELSE WriteDue(r)

Tick ==
    /\ os.state = "open"
    /\ \E t \in Threads : Pending(th[t])
    /\ \A t \in Threads : Pending(th[t]) => ~Due(th[t]) /\ th[t].t < MaxTime
    /\ th' = [t \in Threads |->
                IF Pending(th[t])
                THEN [th[t] EXCEPT !.t = @ + 1, !.idle = @ + 1]
                ELSE th[t]]
    /\ UNCHANGED <<port, opts, os>>

(***************************************************************************)
(* The port under one calling thread.                                      *)
(***************************************************************************)
MainOptions == {OpenOptions(100, 0), OpenOptions(0, 4), OpenOptions(0, 0)}

MainTimeouts ==
    {Timeouts(Millisecond, 2 * Millisecond, 2 * Millisecond),
     Timeouts(2 * Millisecond, 3 * Millisecond, Millisecond),
     Timeouts(Millisecond, 1, 0),
     Timeouts(0, (MAXDWORD + 1) * Millisecond, Millisecond)}

BufLens == 0 .. MaxBufLen

Call(t) ==
    \/ \E timeouts \in MainTimeouts, ok \in BOOLEAN :
          SetTimeouts(t, timeouts, ok)
    \/ \E len \in BufLens : Read(t, len)
    \/ \E len \in BufLens : Write(t, len)
    \/ \E len \in BufLens, timeouts \in MainTimeouts, ok \in BOOLEAN :
          ReadWithTimeouts(t, len, timeouts, ok)
    \/ \E len \in BufLens, timeouts \in MainTimeouts, ok \in BOOLEAN :
          WriteWithTimeouts(t, len, timeouts, ok)
    \/ \E clearRx \in BOOLEAN, clearTx \in BOOLEAN, ok \in BOOLEAN :
          PurgeBuffers(t, clearRx, clearTx, ok)
    \/ Close(t)
    \/ WithTimeoutsIO(t)

Driver(t) ==
    \/ ReadComplete(t)
    \/ WriteComplete(t)
    \/ ByteToReader(t)
    \/ ByteSentFromWriter(t)

Next ==
    \/ \E o \in MainOptions, ok \in BOOLEAN : Open(o, ok)
    \/ Call("t1")
    \/ Driver("t1")
    \/ ByteToQueue
    \/ ByteSent
    \/ Tick

Spec == Init /\ [][Next]_vars

(***************************************************************************)
(* The legacy derivation on its own: Open over a wide set of OpenOptions,  *)
(* then Close.  InterCharacterTimeout and MinimumReadSize are Go uints, 64 *)
(* bits wide on a 64-bit build, so MinimumReadSize may exceed a DWORD; the *)
(* InterCharacterTimeout values keep round(ict / 100) within a DWORD,      *)
(* where the conversion of the float to uint32 is defined.                 *)
(***************************************************************************)
LegacyInterCharacterTimeouts ==
    {0, 1, 49, 50, 51, 100, 149, 150, 250,
     100 * (MAXDWORD - 1), 100 * MAXDWORD, 100 * MAXDWORD + 49}

LegacyMinimumReadSizes == {0, 1, 4, MAXDWORD, MAXDWORD + 1, MAXDWORD + 5}

LegacyOptions ==
    {OpenOptions(ict, mrs) : ict \in LegacyInterCharacterTimeouts,
                             mrs \in LegacyMinimumReadSizes}

NextLegacy ==
    \/ \E o \in LegacyOptions, ok \in BOOLEAN : Open(o, ok)
    \/ Close("t1")

SpecLegacy == Init /\ [][NextLegacy]_vars

(***************************************************************************)
(* The translation of Timeouts on its own: Open, then SetTimeouts over a   *)
(* wide set of Timeouts values: zero, below one millisecond, whole         *)
(* milliseconds, and a duration of 2^WordBits milliseconds.                *)
(***************************************************************************)
Durations ==
    {0, 1, Millisecond, 100 * Millisecond, (MAXDWORD + 1) * Millisecond}

AllTimeouts ==
    {Timeouts(ric, rt, wt) : ric \in Durations, rt \in Durations,
                             wt \in Durations}

TranslateOptions == {OpenOptions(100, 0), OpenOptions(0, 4)}

NextTranslate ==
    \/ \E o \in TranslateOptions : Open(o, TRUE)
    \/ \E timeouts \in AllTimeouts, ok \in BOOLEAN :
          SetTimeouts("t1", timeouts, ok)

SpecTranslate == Init /\ [][NextTranslate]_vars

(***************************************************************************)
(* The port under two calling threads, as in the tests, where one          *)
(* goroutine is inside a Port method while another calls Close or a method *)
(* of its own.  Thread t1 reads and thread t2 writes and closes, each with *)
(* a Timeouts value of its own.  A raw read or write that is due, or whose *)
(* handle was closed, returns: the system call does not stay in the driver *)
(* for ever once it can complete.                                          *)
(***************************************************************************)
TimeoutsOf(t) ==
    IF t = "t1"
    THEN Timeouts(Millisecond, 2 * Millisecond, 2 * Millisecond)
    ELSE Timeouts(2 * Millisecond, 3 * Millisecond, Millisecond)

ConcurrentOptions == {OpenOptions(100, 0), OpenOptions(0, 0)}

ConcurrentLens == 1 .. MaxBufLen

CallOfReader(t) ==
    \/ \E len \in ConcurrentLens : Read(t, len)
    \/ \E len \in ConcurrentLens, ok \in BOOLEAN :
          ReadWithTimeouts(t, len, TimeoutsOf(t), ok)
    \/ WithTimeoutsIO(t)

CallOfWriter(t) ==
    \/ \E len \in ConcurrentLens, ok \in BOOLEAN :
          WriteWithTimeouts(t, len, TimeoutsOf(t), ok)
    \/ WithTimeoutsIO(t)
    \/ Close(t)

NextConcurrent ==
    \/ \E o \in ConcurrentOptions : Open(o, TRUE)
    \/ CallOfReader("t1")
    \/ CallOfWriter("t2")
    \/ Driver("t1")
    \/ Driver("t2")
    \/ ByteToQueue
    \/ ByteSent
    \/ Tick

SpecConcurrent ==
    /\ Init
    /\ [][NextConcurrent]_vars
    /\ WF_vars(ReadComplete("t1"))
    /\ WF_vars(WriteComplete("t2"))

(***************************************************************************)
(* Properties.                                                             *)
(***************************************************************************)
\* Round half up of n / 100, on the integers.
HalfUp100(n) == (n + 50) \div 100

\* The read fields of the driver's configuration are (ri, rm, rc).
ReadFieldsAre(cto, ri, rm, rc) ==
    /\ cto.ReadIntervalTimeout = ri
    /\ cto.ReadTotalTimeoutMultiplier = rm
    /\ cto.ReadTotalTimeoutConstant = rc

\* Whole milliseconds of a duration, without regard to the field's width.
WholeMs(d) == d \div Millisecond

\* Thread t1 has completed a SetTimeouts that reached the driver.
SetTimeoutsPushed ==
    /\ th["t1"].pc = "idle"
    /\ th["t1"].call.op = "SetTimeouts"
    /\ Len(th["t1"].calls) = 1

\* C1 (as stated): for every Timeouts value with non-negative durations the
\* configuration SetTimeouts pushes to the driver of an open port holds the
\* three durations in whole milliseconds and zero multipliers, whatever the
\* open options and the configuration installed before.
C1_PushedIsSpecInMs ==
    SetTimeoutsPushed =>
        th["t1"].calls[1].cto =
            WindowsCommTimeouts(
                WholeMs(th["t1"].call.timeouts.ReadIntercharacter), 0,
                WholeMs(th["t1"].call.timeouts.ReadTotal), 0,
                WholeMs(th["t1"].call.timeouts.WriteTotal))

\* C2 (as stated): for every InterCharacterTimeout > 0 with MinimumReadSize
\* = 0 the legacy derivation gives MAXDWORD, MAXDWORD, round-half-up(ict/100).
C2_Original ==
    (os.state = "open" /\ opts.InterCharacterTimeout > 0
                       /\ opts.MinimumReadSize = 0) =>
        ReadFieldsAre(os.cto, MAXDWORD, MAXDWORD,
                      HalfUp100(opts.InterCharacterTimeout))

\* C2 (amended): for every InterCharacterTimeout of at least 50, whose
\* quotient by 100 rounds half up to a value in 1 .. MAXDWORD, with
\* MinimumReadSize = 0, the legacy derivation gives MAXDWORD, MAXDWORD and
\* that rounded quotient.
C2_NonBlockingFrom50 ==
    (os.state = "open" /\ opts.InterCharacterTimeout >= 50
                       /\ HalfUp100(opts.InterCharacterTimeout) <= MAXDWORD
                       /\ opts.MinimumReadSize = 0) =>
        ReadFieldsAre(os.cto, MAXDWORD, MAXDWORD,
                      HalfUp100(opts.InterCharacterTimeout))

C2_Witness ==
    /\ os.state = "open"
    /\ opts = OpenOptions(100, 0)
    /\ ReadFieldsAre(os.cto, MAXDWORD, MAXDWORD, 1)

\* C3 (as stated): for every MinimumReadSize > 0 and every
\* InterCharacterTimeout the legacy derivation gives MinimumReadSize, 1, 1.
C3_Original ==
    (os.state = "open" /\ opts.MinimumReadSize > 0) =>
        ReadFieldsAre(os.cto, opts.MinimumReadSize, 1, 1)

\* C3 (amended): for every MinimumReadSize in 1 .. MAXDWORD and every
\* InterCharacterTimeout the legacy derivation gives MinimumReadSize, 1, 1.
C3_BlockForInputInDword ==
    (os.state = "open" /\ opts.MinimumReadSize > 0
                       /\ opts.MinimumReadSize <= MAXDWORD) =>
        ReadFieldsAre(os.cto, opts.MinimumReadSize, 1, 1)

C3_Witness ==
    /\ os.state = "open"
    /\ opts.MinimumReadSize = 4
    /\ opts.InterCharacterTimeout = 100
    /\ ReadFieldsAre(os.cto, 4, 1, 1)

\* C4 (as stated): the legacy derivation gives the fallback MAXDWORD,
\* MAXDWORD, MAXDWORD - 1 when, and only when, InterCharacterTimeout and
\* MinimumReadSize are both zero.
C4_Original ==
    os.state = "open" =>
        (ReadFieldsAre(os.cto, MAXDWORD, MAXDWORD, MAXDWORD - 1)
            <=> (opts.InterCharacterTimeout = 0 /\ opts.MinimumReadSize = 0))

\* C4 (amended): the branches are selected by the converted values, tc =
\* round-half-up(ict / 100) and ri = the low DWORD of MinimumReadSize: ri > 0
\* gives ri, 1, 1; ri = 0 with tc > 0 gives MAXDWORD, MAXDWORD, tc; and the
\* fallback MAXDWORD, MAXDWORD, MAXDWORD - 1 is given when tc = 0 and ri = 0,
\* that is for every InterCharacterTimeout below 50, and otherwise only where
\* tc itself is MAXDWORD - 1.
C4_FallbackByConvertedValues ==
    os.state = "open" =>
        LET tc == HalfUp100(opts.InterCharacterTimeout)
            ri == opts.MinimumReadSize % (MAXDWORD + 1)
        IN  /\ ReadFieldsAre(os.cto, MAXDWORD, MAXDWORD, MAXDWORD - 1)
                  <=> (ri = 0 /\ tc \in {0, MAXDWORD - 1})
            /\ ri > 0 => ReadFieldsAre(os.cto, ri, 1, 1)
            /\ (ri = 0 /\ tc > 0) =>
                  ReadFieldsAre(os.cto, MAXDWORD, MAXDWORD, tc)
            /\ os.cto.WriteTotalTimeoutMultiplier = 0
            /\ os.cto.WriteTotalTimeoutConstant = 0

C4_Witness ==
    /\ os.state = "open"
    /\ opts = OpenOptions(0, 0)
    /\ ReadFieldsAre(os.cto, MAXDWORD, MAXDWORD, MAXDWORD - 1)

\* The caller's port cannot be used: nil, a zero or invalid handle, or closed.
PortUnusable == InvalidOrNil(port) \/ os.state = "closed"

\* Thread t1 takes a step of a call in this transition.
CallStep == th'["t1"] # th["t1"] /\ th'["t1"].call.op # "none"

\* C5 (as stated): every Port operation invoked on a nil port, on a port
\* whose handle is zero or invalid, or on a closed port returns
\* ErrInvalidOrNilPort after a local check: no call of the handle provider is
\* made and the driver's state is unchanged.
C5_UnusablePortRejectedLocally ==
    [][(PortUnusable /\ CallStep) =>
          /\ th'["t1"].calls = <<>>
          /\ os' = os
          /\ th'["t1"].pc = "idle" => th'["t1"].err = "ErrInvalidOrNilPort"]_vars

\* C6 (as stated): the handle is released at most once, and Close on an
\* already closed or nil port returns an error without a call to the
\* operating system and without a crash.
C6_SecondCloseStaysLocal ==
    [][(CallStep /\ th'["t1"].call.op = "Close") =>
          /\ (os.state # "open" => os'.state = os.state)
          /\ (os.state = "closed" \/ port.nil) =>
                /\ th'["t1"].err \in {"ErrInvalidOrNilPort", "SystemError"}
                /\ th'["t1"].calls = <<>>]_vars

\* Thread t1 has completed a ReadWithTimeouts or WriteWithTimeouts on the
\* open port.
WithTimeoutsDone ==
    /\ th["t1"].pc = "idle"
    /\ th["t1"].call.op \in {"ReadWithTimeouts", "WriteWithTimeouts"}
    /\ th["t1"].call.onOpenPort
    /\ os.state = "open"

ReadWithTimeoutsDone == WithTimeoutsDone /\ th["t1"].call.op = "ReadWithTimeouts"

\* C7 (as stated): with no other call in progress, ReadWithTimeouts and
\* WriteWithTimeouts on an open port make exactly one applyTimeouts with the
\* translation of the given Timeouts, then exactly one raw read or write, and
\* the configuration in force during that raw I/O is that translation.
C7_RawIOUnderGivenTimeouts ==
    WithTimeoutsDone =>
        LET r == th["t1"]
        IN  /\ Len(r.calls) = 2
            /\ r.calls[1].fn = "applyTimeouts"
            /\ r.calls[1].cto = ctoFromTimeouts(r.call.timeouts)
            /\ r.calls[2].fn = IF r.call.op = "ReadWithTimeouts"
                               THEN "rawRead" ELSE "rawWrite"
            /\ r.calls[2].err = r.err
            /\ r.cfg = ctoFromTimeouts(r.call.timeouts)

\* C8 (as stated): every error the handle provider reports reaches the
\* caller of the operation that met it, and no provider call is repeated.
C8_ProviderErrorsReachCaller ==
    (th["t1"].pc = "idle" /\ th["t1"].call.op # "none") =>
        LET r == th["t1"]
        IN  /\ \A i \in 1 .. Len(r.calls) :
                  r.calls[i].err # "nil" => r.err = r.calls[i].err
            /\ \A i, j \in 1 .. Len(r.calls) :
                  r.calls[i].fn = r.calls[j].fn => i = j

\* C9 (as stated): ReadWithTimeouts on an open port with ReadTotal > 0, a
\* buffer of at least one byte and no incoming data returns (0, nil) when the
\* ReadTotal deadline has elapsed and not before; the count returned is
\* within 0 .. len(buf).
C9_ReadTotalTimeoutIsZeroBytesAtDeadline ==
    LET r == th["t1"]
        rt == r.call.timeouts.ReadTotal
    IN  /\ (ReadWithTimeoutsDone /\ rt > 0 /\ r.call.len > 0 /\ r.n = 0) =>
              /\ r.err = "nil"
              /\ r.t * Millisecond >= rt
        /\ (r.pc = "reading" /\ r.call.op = "ReadWithTimeouts"
                             /\ os.state = "open" /\ rt > 0 /\ r.n = 0) =>
              (r.t - 1) * Millisecond < rt
        /\ ReadWithTimeoutsDone => (0 <= r.n /\ r.n <= r.call.len)

\* The three events of C10, taken from the Timeouts given to the call.
C10_Full(r) == r.n = r.call.len

C10_IntervalElapsed(r) ==
    /\ r.n > 0
    /\ r.call.timeouts.ReadIntercharacter > 0
    /\ r.idle * Millisecond >= r.call.timeouts.ReadIntercharacter

C10_TotalElapsed(r) ==
    /\ r.call.timeouts.ReadTotal > 0
    /\ r.t * Millisecond >= r.call.timeouts.ReadTotal

\* C10 (as stated, its completion events): a ReadWithTimeouts on an open port
\* returns when the buffer is full, when the ReadIntercharacter interval has
\* elapsed since the last byte received, or when the ReadTotal deadline has
\* elapsed, and at none but these: so a trickle of fewer bytes than the
\* buffer holds is returned whole, an interval after its last byte.
C10_CompletesAtFirstOfThreeEvents ==
    (ReadWithTimeoutsDone /\ th["t1"].err = "nil") =>
        \/ C10_Full(th["t1"])
        \/ C10_IntervalElapsed(th["t1"])
        \/ C10_TotalElapsed(th["t1"])

WriteWithTimeoutsDone ==
    WithTimeoutsDone /\ th["t1"].call.op = "WriteWithTimeouts"

\* Thread t1 is inside the raw write of a WriteWithTimeouts on the open port.
WriteWithTimeoutsPending ==
    /\ th["t1"].pc = "writing"
    /\ th["t1"].call.op = "WriteWithTimeouts"
    /\ os.state = "open"

\* C11 (as stated, by the result of the call): a WriteWithTimeouts on an open
\* port that returns before the transport accepted all its bytes returns when
\* WriteTotal has elapsed and fails with an error, the count of the bytes
\* transferred being reported with it.
C11_Original ==
    LET r == th["t1"]
    IN  (WriteWithTimeoutsDone /\ r.n < r.call.len) =>
            /\ r.err # "nil"
            /\ r.t * Millisecond >= r.call.timeouts.WriteTotal
            /\ 0 <= r.n

\* C11 (amended): a WriteWithTimeouts on an open port whose bytes the
\* transport does not all accept before the write-total timeout in force in
\* the driver returns when that timeout has elapsed, not later, with no error
\* and with the count of the bytes transferred, fewer than the buffer holds;
\* the timeout in force is WriteTotal in whole milliseconds, cut to a DWORD,
\* whenever the call's own SetCommTimeouts took effect, and the one installed
\* before otherwise.
C11_TimeoutReturnsCountNoError ==
    LET r == th["t1"]
        wt == WriteTotalTimeout(r.cfg, r.call.len)
    IN  /\ (WriteWithTimeoutsDone /\ r.n < r.call.len) =>
              /\ r.err = "nil"
              /\ wt > 0
              /\ r.t = wt
              /\ 0 <= r.n
        /\ (WriteWithTimeoutsPending /\ wt > 0) => r.t <= wt
        /\ ((WriteWithTimeoutsDone \/ WriteWithTimeoutsPending)
                /\ Len(r.calls) = 2) =>
              wt = (IF r.calls[1].err = "nil"
                    THEN Uint32(WholeMs(r.call.timeouts.WriteTotal))
                    ELSE WriteTotalTimeout(os.cto, r.call.len))

C11_Witness ==
    /\ WriteWithTimeoutsDone
    /\ th["t1"].calls[1].err = "nil"
    /\ th["t1"].call.timeouts.WriteTotal = 2 * Millisecond
    /\ th["t1"].call.len = 2
    /\ th["t1"].n = 1
    /\ th["t1"].t = 2
    /\ th["t1"].err = "nil"

PurgeStep ==
    /\ CallStep
    /\ th'["t1"].call.op = "PurgeBuffers"
    /\ th'["t1"].call.onOpenPort
    /\ th'["t1"].err = "nil"

\* Thread t1 enters, in this transition, a Read on the open port.
ReadEntry ==
    /\ CallStep
    /\ th["t1"].pc = "idle"
    /\ th'["t1"].call.op = "Read"
    /\ th'["t1"].call.onOpenPort

\* C13 (as stated): a PurgeBuffers(clearRx, clearTx) carried out on an open
\* port leaves the receive queue empty if clearRx and as it was if not, the
\* transmit queue empty if clearTx and as it was if not, and the timeout
\* configuration as it was; and a Read entered while the receive queue is
\* empty, as PurgeBuffers(true, true) leaves it, takes no byte on entry and
\* returns the count it holds, which is 0 unless a byte arrived meanwhile.
C13_PurgeClearsByFlags ==
    /\ [][PurgeStep =>
             /\ os'.rx = (IF th'["t1"].call.clearRx THEN 0 ELSE os.rx)
             /\ os'.tx = (IF th'["t1"].call.clearTx THEN 0 ELSE os.tx)
             /\ os'.cto = os.cto
             /\ os'.state = os.state]_vars
    /\ [][(ReadEntry /\ os.rx = 0) =>
             /\ th'["t1"].n = 0
             /\ th'["t1"].err = "nil"]_vars
    /\ [][(th["t1"].pc = "reading" /\ th'["t1"].pc = "idle") =>
             th'["t1"].n = th["t1"].n]_vars

C13_Witness ==
    /\ th["t1"].pc = "idle"
    /\ th["t1"].call.op = "PurgeBuffers"
    /\ th["t1"].call.onOpenPort
    /\ th["t1"].call.clearRx
    /\ ~th["t1"].call.clearTx
    /\ th["t1"].err = "nil"
    /\ os.rx = 0
    /\ os.tx = OutBufSize
    /\ os.cto = ctoFromTimeouts(
                    Timeouts(Millisecond, 2 * Millisecond, 2 * Millisecond))

\* C14 (as stated): for every non-negative duration in each of the three
\* fields of a Timeouts value, also one of 2^32 milliseconds or more, the
\* field SetTimeouts pushes to the driver for it holds the duration in whole
\* milliseconds, truncated toward zero and not reduced modulo the width of
\* the field.
C14_NoWrapAround ==
    SetTimeoutsPushed =>
        LET pushed == th["t1"].calls[1].cto
            timeouts == th["t1"].call.timeouts
        IN  /\ pushed.ReadIntervalTimeout = WholeMs(timeouts.ReadIntercharacter)
            /\ pushed.ReadTotalTimeoutConstant = WholeMs(timeouts.ReadTotal)
            /\ pushed.WriteTotalTimeoutConstant = WholeMs(timeouts.WriteTotal)

\* Thread t1 has, after this transition, returned without error from the
\* given operation, called on the open port.
ReturnsFrom(ops) ==
    /\ CallStep
    /\ th'["t1"].pc = "idle"
    /\ th'["t1"].call.op \in ops
    /\ th'["t1"].call.onOpenPort
    /\ th'["t1"].err = "nil"
    /\ os'.state = "open"

\* A transition inside a call of SetTimeouts, ReadWithTimeouts or
\* WriteWithTimeouts of thread t1.
InTimeoutsCall ==
    /\ CallStep
    /\ th'["t1"].call.op \in
          {"SetTimeouts", "ReadWithTimeouts", "WriteWithTimeouts"}

\* C15 (as stated): in the history of one thread on an open port the driver's
\* timeout configuration is ctoFromOpenOptions of the open options when Open
\* returns; it is the translation of the Timeouts given, whenever a
\* SetTimeouts, ReadWithTimeouts or WriteWithTimeouts returns without error;
\* no other step changes it, a Read, Write or PurgeBuffers in particular; and
\* a SetTimeouts given the Timeouts whose translation is installed leaves it
\* as it is.
C15_ConfigurationFollowsLastTimeoutsCall ==
    /\ [][(os.state = "unopened" /\ os'.state = "open") =>
             os'.cto = ctoFromOpenOptions(opts')]_vars
    /\ [][ReturnsFrom({"SetTimeouts", "ReadWithTimeouts",
                       "WriteWithTimeouts"}) =>
             os'.cto = ctoFromTimeouts(th'["t1"].call.timeouts)]_vars
    /\ [][(os.state = "open" /\ ~InTimeoutsCall) => os'.cto = os.cto]_vars
    /\ [][(CallStep /\ th'["t1"].call.op = "SetTimeouts"
                    /\ os.cto = ctoFromTimeouts(th'["t1"].call.timeouts)) =>
             os'.cto = os.cto]_vars

\* Thread t has started the raw I/O of a ReadWithTimeouts or
\* WriteWithTimeouts whose own SetCommTimeouts the driver accepted.
RawIOAfterOwnTimeouts(t) ==
    /\ th[t].call.op \in {"ReadWithTimeouts", "WriteWithTimeouts"}
    /\ Len(th[t].calls) = 2
    /\ th[t].calls[1].err = "nil"
    /\ th[t].calls[2].err = "nil"

\* C16 (as stated): the driver holds one timeout configuration and the
\* SetTimeouts and the raw I/O of a ReadWithTimeouts or WriteWithTimeouts are
\* two steps with no lock around them: when two threads make such calls with
\* different Timeouts, the raw I/O of a call whose own SetCommTimeouts was
\* accepted runs under the translation of its own Timeouts or under the
\* translation of the other thread's, and the latter does happen.
C16_RawIOUnderOwnOrOthersTimeouts ==
    \A t \in Threads :
        RawIOAfterOwnTimeouts(t) =>
            \E u \in Threads : th[t].cfg = ctoFromTimeouts(TimeoutsOf(u))

C16_Witness ==
    /\ RawIOAfterOwnTimeouts("t1")
    /\ th["t1"].call.op = "ReadWithTimeouts"
    /\ th["t1"].calls[1].cto = ctoFromTimeouts(TimeoutsOf("t1"))
    /\ th["t1"].calls[2].cto = ctoFromTimeouts(TimeoutsOf("t2"))
    /\ th["t1"].cfg = ctoFromTimeouts(TimeoutsOf("t2"))
    /\ ctoFromTimeouts(TimeoutsOf("t2")) # ctoFromTimeouts(TimeoutsOf("t1"))
    /\ th["t2"].call.op = "WriteWithTimeouts"
    /\ th["t2"].calls # <<>>
    /\ th["t2"].calls[1].err = "nil"

====
